---- MODULE Spec2Model ----
(***************************************************************************)
(* Mode & Session Control Engine of FocusAi-Core                           *)
(* (src/ModeController/mode_controller.py).                                *)
(*                                                                         *)
(* Threads: callers of switch_to_mode ("user"), the tracking loop calling  *)
(* enforce_current_mode ("enforce"), the single worker of                  *)
(* ThreadPoolExecutor(max_workers=1) ("worker") and two threads that can   *)
(* invoke _graceful_shutdown.  mode_lock is held from the first to the     *)
(* last step of switch_to_mode and enforce_current_mode; the timer worker, *)
(* _schedule_focus_end called from it, and the flag test and set of        *)
(* _graceful_shutdown run without it.                                      *)
(*                                                                         *)
(* Time is a clock tick that advances the elapsed time of the open focus   *)
(* session and the sleep total of a running timer worker together.         *)
(***************************************************************************)
EXTENDS Integers, Sequences, FiniteSets, TLC

\* ---------------------------------------------------------------- bounds
\* Futures handed to the executor in one run.
MaxTasks == 3
\* Duration of the deep and of the light focus policy, in clock ticks.
DeepTicks == 2
LightTicks == 1
\* Observations handed to add_window_info in one run, and their latest
\* timestamp.
MaxObs == 4
MaxTime == 3
\* Observations of the tracking loop followed together with the engine.
MaxTracked == 2
\* Observations followed with their contexts and statuses.
MaxDetailed == 3
\* Observations of one window followed through a long session.
MaxSteady == 10

\* ------------------------------------------------------------ vocabulary
None == "None"
ModeType == {"STANDARD", "KIDS"}
StandardSubMode == {"NORMAL", "FOCUS"}
FocusType == {"DEEP", "LIGHT", "CUSTOM"}

\* Arguments of switch_to_mode(mode, submode=None, focus_type=None).
Requests == [mode : ModeType,
             submode : StandardSubMode \cup {None},
             focus_type : FocusType \cup {None}]
NoRequest == [mode |-> None, submode |-> None, focus_type |-> None]
EndFocusRequest == [mode |-> "STANDARD", submode |-> "NORMAL", focus_type |-> None]

\* Observations handed to enforce_current_mode (WindowInfo.app, .status,
\* .window_type), and the absent observation.
Apps == {"steam", "discord", "Discord", "vlc", "notion"}
Statuses == {"Blocked", "Neutral"}
WindowTypes == {"browser", "desktop"}
Observations == [app : Apps, status : Statuses, window_type : WindowTypes]
NoObservation == [app |-> None, status |-> None, window_type |-> None]

TaskIds == 1 .. MaxTasks
NoTask == 0
\* mode_start_time is None.
NoStart == -1
\* The elapsed time of a session is followed up to the longest duration.
MaxElapsed == IF DeepTicks > LightTicks THEN DeepTicks ELSE LightTicks

VARIABLES
    current_mode, current_submode, current_focus_type,
    session_elapsed,      \* NoStart, or now - mode_start_time (saturating)
    transitioning,        \* _transitioning
    shutdown_event,       \* _shutdown_event.is_set()
    executor_down,        \* executor.shutdown() was called
    lock,                 \* holder of mode_lock: "free", "user", "worker", "enforce"
    sw,                   \* the switch_to_mode call in progress
    fut,                  \* the futures returned by executor.submit
    queue,                \* the executor's work queue (pending futures, FIFO)
    active_futures,       \* _active_futures
    focus_timer_future,   \* _focus_timer_future (NoTask: attribute not set)
    wk,                   \* the executor's single worker thread
    ec,                   \* the enforce_current_mode call in progress
    sd,                   \* the threads invoking _graceful_shutdown
    cfg,                  \* what the Settings Repository loaded
    cf,                   \* the change_focus_type call in progress
    session_records,      \* records appended to focus_sessions.json for the latest session
    session_notifications,\* send_notification calls since the latest session began
    hist_lock,            \* holder of WindowHistory.lock: "free", "tracker"
    tk,                   \* the tracking thread's add_window_info call, or its latest one
    raw_history,          \* raw_history: the observations appended since construction
    sessions,             \* every AppSession object created, in order of creation
    current_session,      \* NoSession, or the position in sessions of current_session
    last_window_time,     \* NoTime, or last_window_time
    app_statistics,       \* app_statistics: app |-> total_time, session_count
    loaded_statistics     \* app_statistics as _load_recent_data_to_cache left it

triple == <<current_mode, current_submode, current_focus_type>>
flags == <<transitioning, shutdown_event, executor_down>>
futures == <<fut, queue, active_futures, focus_timer_future>>
ghosts == <<session_records, session_notifications>>
\* The fields of ModeController and of WindowHistory.
controller == <<current_mode, current_submode, current_focus_type, session_elapsed,
                transitioning, shutdown_event, executor_down, lock, sw, fut, queue,
                active_futures, focus_timer_future, wk, ec, sd, cfg, cf, session_records,
                session_notifications>>
hist == <<hist_lock, tk, raw_history, sessions, current_session, last_window_time,
          app_statistics, loaded_statistics>>
vars == <<controller, hist>>

\* --------------------------------------------------- Settings Repository
\* A policy record: present is FALSE when get_mode_setting returns None;
\* duration 0 stands for duration None.
NoSettings == [present |-> FALSE, blocked_apps |-> {}, minimized_apps |-> {}, duration |-> 0]
Policy(blocked, minimized, dur) ==
    [present |-> TRUE, blocked_apps |-> blocked, minimized_apps |-> minimized, duration |-> dur]

\* The records the repository holds: the deep, light and normal records of
\* _create_default_configs, no custom record, and a kids record that has no
\* duration (the default kids.json) or has one.
KidsConfigs == {"noduration", "duration"}
FocusBlocked == {"steam", "discord"}
FocusMinimized == {"steam", "vlc"}

get_mode_setting(key) ==
    CASE key = "standard_normal" -> Policy({}, {}, 0)
      [] key = "standard_focus_deep" -> Policy(FocusBlocked, FocusMinimized, cfg.deep)
      [] key = "standard_focus_light" -> Policy(FocusBlocked, FocusMinimized, cfg.light)
      [] key = "kids" -> Policy(FocusBlocked, FocusMinimized,
                                IF cfg.kids = "duration" THEN DeepTicks ELSE 0)
      [] OTHER -> NoSettings

FocusKey(ft) ==
    CASE ft = "DEEP" -> "standard_focus_deep"
      [] ft = "LIGHT" -> "standard_focus_light"
      [] ft = "CUSTOM" -> "standard_focus_custom"
      [] OTHER -> "none"

\* _get_current_mode_settings
get_current_mode_settings ==
    IF current_mode = "KIDS" THEN get_mode_setting("kids")
    ELSE IF current_mode = "STANDARD" /\ current_submode = "NORMAL"
         THEN get_mode_setting("standard_normal")
    ELSE IF current_mode = "STANDARD" /\ current_submode = "FOCUS"
            /\ current_focus_type # None
         THEN get_mode_setting(FocusKey(current_focus_type))
    ELSE NoSettings

\* str.lower() on the app names of the model.
Lower(app) == IF app = "Discord" THEN "discord" ELSE app

\* ------------------------------------------------------------- executor
NoFuture == [kind |-> None, st |-> "none", dur |-> 0]
\* A future that finished, and one cancelled before it ran (Future.cancel()
\* returned True): nothing reads what such a future was.
DoneFuture == [kind |-> None, st |-> "done", dur |-> 0]
CancelledFuture == [kind |-> None, st |-> "cancelled", dur |-> 0]
Used == {i \in TaskIds : fut[i].st # "none"}
NextId == Cardinality(Used) + 1
FreeIds == MaxTasks - Cardinality(Used)
\* Timers that have not yet run _schedule_focus_end: each keeps one future in
\* reserve for the end-focus task it will submit.
LiveTimers == {i \in TaskIds : fut[i].kind = "timer" /\ fut[i].st \in {"pending", "running"}}
Reserve == Cardinality(LiveTimers)

Remove(q, i) == SelectSeq(q, LAMBDA x : x # i)

\* executor.submit
Submitted(f, kind, dur) == [f EXCEPT ![NextId] = [kind |-> kind, st |-> "pending", dur |-> dur]]

\* ------------------------------------------------------------------ Init
NoTriple == <<None, None, None>>
\* custom_settings is None (or an empty dict); otherwise it names a duration.
NoCustom == [duration |-> 0]
CustomSettings == [duration : 1 .. MaxElapsed]
\* No change_focus_type call is in progress.
NoChange == None

IdleSwitch == [pc |-> "idle", owner |-> None, req |-> NoRequest, pre |-> NoTriple,
               old |-> NoTriple, ret |-> FALSE, init_failed |-> FALSE,
               custom_settings |-> NoCustom, append_failed |-> FALSE]
IdleWorker == [task |-> NoTask, pc |-> "idle", slept |-> 0]
IdleEnforce == [pc |-> "idle", obs |-> NoObservation, applied |-> FALSE, close_tab |-> 0,
                close_window |-> 0, minimize |-> 0, scheduled |-> FALSE]
ShutdownThreads == {1, 2}

\* ModeController.__init__
\* ModeController.__init__
ControllerInit ==
    /\ current_mode = "STANDARD"
    /\ current_submode = "NORMAL"
    /\ current_focus_type = None
    /\ session_elapsed = NoStart
    /\ transitioning = FALSE
    /\ shutdown_event = FALSE
    /\ executor_down = FALSE
    /\ lock = "free"
    /\ sw = IdleSwitch
    /\ fut = [i \in TaskIds |-> NoFuture]
    /\ queue = <<>>
    /\ active_futures = {}
    /\ focus_timer_future = NoTask
    /\ wk = IdleWorker
    /\ ec = IdleEnforce
    /\ sd = [p \in ShutdownThreads |-> "idle"]
    /\ cfg \in [kids : KidsConfigs, deep : {DeepTicks}, light : {LightTicks},
                 history_file : {"writable"}]
    /\ cf = NoChange
    /\ session_records = 0
    /\ session_notifications = 0

\* ------------------------------------------------- WindowHistory, state
\* Apps and timestamps of the observations handed to add_window_info.
HistoryApps == {"steam", "notion"}
Timestamps == 0 .. MaxTime
\* WindowInfo.context when the window has none (the default of the field).
NoContext == ""
HistoryObservations == [app : HistoryApps, timestamp : Timestamps,
                        context : {NoContext}, status : {"Neutral"}]
\* The observations add_window_info can receive next in one run.
ReceivedObservations == {o \in HistoryObservations : Len(raw_history) < MaxObs}
NoHistoryObservation == [app |-> None, timestamp |-> 0, context |-> NoContext,
                         status |-> None]
\* session_gap_seconds, the constructor's parameter.
session_gap_seconds == 1
\* current_session is None; last_window_time is None.
NoSession == 0
NoTime == -1
IdleTracker == [pc |-> "idle", obs |-> NoHistoryObservation, boundary |-> FALSE, calls |-> 0]
\* AppStatistics(app_name) as created at line 244, and the cache with no
\* statistics in the database.
\* average_session_duration is kept as the quotient it was computed from.
Quotient(total, count) == <<total, count>>
NewStatistics == [total_time |-> 0, session_count |-> 0,
                  average_session_duration |-> Quotient(0, 1),
                  longest_session |-> 0, last_used |-> NoTime]
EmptyStatistics == [a \in HistoryApps |-> NewStatistics]
\* What the database can hold at construction: nothing, or earlier sessions
\* of one app.
LoadableStatistics ==
    {EmptyStatistics,
     [EmptyStatistics EXCEPT !["steam"] =
         [total_time |-> 2, session_count |-> 1,
          average_session_duration |-> Quotient(2, 1),
          longest_session |-> 2, last_used |-> NoTime]]}

\* WindowHistory.__init__ with the statistics its database holds.
HistoryInit(statistics) ==
    /\ hist_lock = "free"
    /\ tk = IdleTracker
    /\ raw_history = <<>>
    /\ sessions = <<>>
    /\ current_session = NoSession
    /\ last_window_time = NoTime
    /\ app_statistics = statistics
    /\ loaded_statistics = statistics

Init == ControllerInit /\ HistoryInit(EmptyStatistics)

\* --------------------------------------------------------- switch_to_mode
\* _validate_mode_combination without the test of line 252.
validate_kids_unchecked(mode, submode, focus_type) ==
    IF mode = "KIDS" THEN TRUE
    ELSE IF mode = "STANDARD" THEN
        LET sm == IF submode = None THEN "NORMAL" ELSE submode
        IN  /\ ~(sm = "FOCUS" /\ focus_type = None)
            /\ ~(sm = "NORMAL" /\ focus_type # None)
    ELSE FALSE

\* _validate_mode_combination without the default of lines 256-257.
validate_submode_not_defaulted(mode, submode, focus_type) ==
    IF mode = "KIDS" THEN submode = None /\ focus_type = None
    ELSE IF mode = "STANDARD" THEN
        /\ ~(submode = "FOCUS" /\ focus_type = None)
        /\ ~(submode = "NORMAL" /\ focus_type # None)
    ELSE FALSE

\* _validate_mode_combination
validate_mode_combination(mode, submode, focus_type) ==
    IF mode = "KIDS" THEN submode = None /\ focus_type = None
    ELSE IF mode = "STANDARD" THEN
        LET sm == IF submode = None THEN "NORMAL" ELSE submode
        IN  /\ ~(sm = "FOCUS" /\ focus_type = None)
            /\ ~(sm = "NORMAL" /\ focus_type # None)
    ELSE FALSE

\* switch_to_mode without the test of lines 240-244.
never_already_in_requested_state(r) == FALSE

\* switch_to_mode, lines 240-242: "already in the requested state".
already_in_requested_state(r) ==
    /\ current_mode = r.mode
    /\ current_submode = r.submode
    /\ current_focus_type = r.focus_type

\* The futures a switch to r submits when it succeeds: the focus timer and
\* the end-focus task the timer submits, or the kids countdown.
FuturesNeeded(r) ==
    IF r.mode = "KIDS" THEN (IF cfg.kids = "duration" THEN 1 ELSE 0)
    ELSE IF r.submode = "FOCUS" /\ r.focus_type # None
            /\ get_mode_setting(FocusKey(r.focus_type)).duration > 0 THEN 2
    ELSE 0

\* The test of lines 118-119 and 320-321.
focus_session_open ==
    /\ current_submode = "FOCUS"
    /\ current_focus_type # None
    /\ session_elapsed # NoStart

\* config/focus_sessions.json can be read, parsed and written.
history_file_writable == cfg.history_file = "writable"

\* _save_session_data appends one record; a failure of lines 617-628 is
\* logged at line 631 and the record is lost.
SessionSaved ==
    session_records' = IF history_file_writable THEN session_records + 1
                       ELSE session_records

\* _cleanup_current_mode: Future.cancel() succeeds on a pending future only.
CleanedUp ==
    /\ LET f == focus_timer_future
           cancels == f # NoTask /\ fut[f].st = "pending"
       IN  /\ fut' = IF cancels THEN [fut EXCEPT ![f] = CancelledFuture] ELSE fut
           /\ queue' = IF cancels THEN Remove(queue, f) ELSE queue
           /\ active_futures' = active_futures \ {f}
    /\ IF focus_session_open THEN SessionSaved ELSE UNCHANGED session_records
    /\ session_elapsed' = NoStart
    /\ UNCHANGED focus_timer_future

Returned(o, r, b) == [pc |-> "exit", owner |-> o, req |-> r, pre |-> triple,
                      old |-> NoTriple, ret |-> b, init_failed |-> FALSE,
                      custom_settings |-> NoCustom, append_failed |-> FALSE]

\* Line 231 testing _transitioning only.
transition_in_progress == transitioning

\* switch_to_mode, line 231: the call is refused.
transition_in_progress_or_shutting_down == transitioning \/ shutdown_event

\* switch_to_mode, lines 230-246, then lines 272-282 of _perform_mode_switch
\* with _cleanup_current_mode.
switch_to_mode_with(o, r, custom_settings) ==
    /\ lock = "free"
    /\ lock' = o
    /\ IF transition_in_progress_or_shutting_down THEN
            /\ sw' = Returned(o, r, FALSE)
            /\ UNCHANGED <<transitioning, session_elapsed, futures, session_records>>
       ELSE IF ~validate_mode_combination(r.mode, r.submode, r.focus_type) THEN
            /\ sw' = Returned(o, r, FALSE)
            /\ UNCHANGED <<transitioning, session_elapsed, futures, session_records>>
       ELSE IF already_in_requested_state(r) THEN
            /\ sw' = Returned(o, r, TRUE)
            /\ UNCHANGED <<transitioning, session_elapsed, futures, session_records>>
       ELSE /\ FreeIds >= Reserve + FuturesNeeded(r)
            /\ transitioning' = TRUE
            /\ CleanedUp
            /\ sw' = [pc |-> "set_mode", owner |-> o, req |-> r, pre |-> triple,
                      old |-> triple, ret |-> FALSE, init_failed |-> FALSE,
                      custom_settings |-> custom_settings,
                      append_failed |-> focus_session_open /\ ~history_file_writable]
    /\ UNCHANGED <<hist, triple, shutdown_event, executor_down, wk, ec, sd, cfg,
                   session_notifications>>

\* switch_to_mode(mode, submode, focus_type) with custom_settings omitted.
switch_to_mode(o, r) == switch_to_mode_with(o, r, NoCustom)

\* switch_to_focus(focus_type, custom_settings), start_focus_session.
switch_to_focus(focus_type, custom_settings) ==
    /\ switch_to_mode_with("user",
                           [mode |-> "STANDARD", submode |-> "FOCUS",
                            focus_type |-> focus_type],
                           custom_settings)
    /\ UNCHANGED cf

UserSwitch(reqs) == \E r \in reqs : switch_to_mode("user", r) /\ UNCHANGED cf

\* _perform_mode_switch, line 283.
SwSetMode ==
    /\ sw.pc = "set_mode"
    /\ current_mode' = sw.req.mode
    /\ sw' = [sw EXCEPT !.pc = "set_submode"]
    /\ UNCHANGED <<hist, current_submode, current_focus_type, session_elapsed, flags, lock,
                   futures, wk, ec, sd, cfg, cf, ghosts>>

\* _perform_mode_switch, line 284.
SwSetSubmode ==
    /\ sw.pc = "set_submode"
    /\ current_submode' = IF sw.req.submode # None THEN sw.req.submode
                          ELSE IF sw.req.mode = "STANDARD" THEN "NORMAL" ELSE None
    /\ sw' = [sw EXCEPT !.pc = "set_focus"]
    /\ UNCHANGED <<hist, current_mode, current_focus_type, session_elapsed, flags, lock,
                   futures, wk, ec, sd, cfg, cf, ghosts>>

\* _apply_custom_settings: setattr on the record get_mode_setting returns, the
\* repository's own object.
apply_custom_settings(focus_type, custom_settings) ==
    IF ~get_mode_setting(FocusKey(focus_type)).present THEN cfg
    ELSE IF focus_type = "DEEP" THEN [cfg EXCEPT !.deep = custom_settings.duration]
    ELSE IF focus_type = "LIGHT" THEN [cfg EXCEPT !.light = custom_settings.duration]
    ELSE cfg

\* _perform_mode_switch, lines 285-289.
SwSetFocus ==
    /\ sw.pc = "set_focus"
    /\ current_focus_type' = sw.req.focus_type
    /\ cfg' = IF sw.custom_settings # NoCustom /\ sw.req.focus_type # None
              THEN apply_custom_settings(sw.req.focus_type, sw.custom_settings)
              ELSE cfg
    /\ sw' = [sw EXCEPT !.pc = "init"]
    /\ UNCHANGED <<hist, current_mode, current_submode, session_elapsed, flags, lock,
                   futures, wk, ec, sd, cf, ghosts>>

\* _apply_mode_settings failing after a session record could not be appended.
apply_mode_settings_needs_record ==
    /\ ~sw.append_failed
    /\ IF current_mode = "KIDS" THEN cfg.kids = "duration"
       ELSE IF current_mode = "STANDARD" THEN
           \/ current_submode = "NORMAL"
           \/ current_submode = "FOCUS" /\ current_focus_type # None
       ELSE FALSE

\* _apply_mode_settings.  The kids branch returns True only for a record with
\* a duration: float(None) raises TypeError, caught at line 364.
apply_mode_settings ==
    IF current_mode = "KIDS" THEN cfg.kids = "duration"
    ELSE IF current_mode = "STANDARD" THEN
        \/ current_submode = "NORMAL"
        \/ current_submode = "FOCUS" /\ current_focus_type # None
    ELSE FALSE

\* _apply_focus_mode_settings without the call of _start_focus_timer.
focus_timer_not_started == FALSE

\* _start_focus_timer submits a timer (lines 423-431).
starts_focus_timer ==
    /\ ~shutdown_event
    /\ get_current_mode_settings.present
    /\ get_current_mode_settings.duration > 0

\* _initialize_new_mode and lines 292-302 of _perform_mode_switch; on success
\* the finally clause of line 308 follows.
SwInit ==
    /\ sw.pc = "init"
    /\ IF ~apply_mode_settings THEN
            /\ sw' = [sw EXCEPT !.pc = "rb_mode", !.init_failed = TRUE]
            /\ UNCHANGED <<session_elapsed, futures, ghosts, transitioning>>
       ELSE /\ sw' = [sw EXCEPT !.pc = "exit", !.ret = TRUE]
            /\ transitioning' = FALSE
            /\ IF current_mode = "KIDS" THEN
                    \* _apply_kids_mode_settings, lines 406-413
                    /\ FreeIds > 0
                    /\ fut' = Submitted(fut, "kids", 0)
                    /\ queue' = Append(queue, NextId)
                    /\ active_futures' = active_futures \cup {NextId}
                    /\ focus_timer_future' = NextId
                    /\ UNCHANGED <<session_elapsed, ghosts>>
               ELSE IF current_submode = "FOCUS" THEN
                    /\ session_elapsed' = 0
                    /\ session_records' = 0
                    /\ session_notifications' = 0
                    /\ IF starts_focus_timer THEN
                            /\ FreeIds > 0
                            /\ fut' = Submitted(fut, "timer",
                                                get_current_mode_settings.duration)
                            /\ queue' = Append(queue, NextId)
                            /\ active_futures' = active_futures \cup {NextId}
                            /\ focus_timer_future' = NextId
                       ELSE UNCHANGED futures
               ELSE UNCHANGED <<session_elapsed, futures, ghosts>>
    /\ UNCHANGED <<hist, triple, shutdown_event, executor_down, lock, wk, ec, sd, cfg, cf>>

\* Line 296, the rollback: three stores from old_state.
SwRollbackMode ==
    /\ sw.pc = "rb_mode"
    /\ current_mode' = sw.old[1]
    /\ sw' = [sw EXCEPT !.pc = "rb_submode"]
    /\ UNCHANGED <<hist, current_submode, current_focus_type, session_elapsed, flags, lock,
                   futures, wk, ec, sd, cfg, cf, ghosts>>

\* Line 296 restoring the mode and the focus type only.
SwRollbackSubmodeSkipped ==
    /\ sw.pc = "rb_submode"
    /\ sw' = [sw EXCEPT !.pc = "rb_focus"]
    /\ UNCHANGED <<hist, triple, session_elapsed, flags, lock, futures, wk, ec, sd, cfg, cf,
                   ghosts>>

SwRollbackSubmode ==
    /\ sw.pc = "rb_submode"
    /\ current_submode' = sw.old[2]
    /\ sw' = [sw EXCEPT !.pc = "rb_focus"]
    /\ UNCHANGED <<hist, current_mode, current_focus_type, session_elapsed, flags, lock,
                   futures, wk, ec, sd, cfg, cf, ghosts>>

\* The last store of line 296 and the return of line 298 without the finally
\* clause of lines 307-308.
SwRollbackFocus_without_finally ==
    /\ sw.pc = "rb_focus"
    /\ current_focus_type' = sw.old[3]
    /\ sw' = [sw EXCEPT !.pc = "exit", !.ret = FALSE]
    /\ UNCHANGED <<hist, current_mode, current_submode, session_elapsed, flags, lock,
                   futures, wk, ec, sd, cfg, cf, ghosts>>

\* The last store of line 296, the return of line 298 and the finally clause.
SwRollbackFocus ==
    /\ sw.pc = "rb_focus"
    /\ current_focus_type' = sw.old[3]
    /\ transitioning' = FALSE
    /\ sw' = [sw EXCEPT !.pc = "exit", !.ret = FALSE]
    /\ UNCHANGED <<hist, current_mode, current_submode, session_elapsed, shutdown_event,
                   executor_down, lock, futures, wk, ec, sd, cfg, cf, ghosts>>

\* ------------------------------------------------------ the worker thread
\* The task function returns: the future is done and the done callback of
\* _track_future discards it from _active_futures.
Finished(f) == [f EXCEPT ![wk.task] = DoneFuture]

WorkerDone ==
    /\ fut' = Finished(fut)
    /\ active_futures' = active_futures \ {wk.task}
    /\ wk' = IdleWorker
    /\ UNCHANGED <<queue, focus_timer_future>>

\* switch_to_mode returns to its caller and leaves the with block of line 230.
UserReturn ==
    /\ sw.pc = "exit"
    /\ sw.owner = "user"
    /\ lock' = "free"
    /\ sw' = IdleSwitch
    /\ UNCHANGED <<hist, triple, session_elapsed, flags, futures, wk, ec, sd, cfg, cf, ghosts>>

\* switch_to_mode returns to _end_focus_session_async, which notifies unless
\* the shutdown flag is set (lines 471-475) and returns.
EndReturn ==
    /\ sw.pc = "exit"
    /\ sw.owner = "worker"
    /\ lock' = "free"
    /\ sw' = IdleSwitch
    /\ session_notifications' =
           IF shutdown_event THEN session_notifications ELSE session_notifications + 1
    /\ WorkerDone
    /\ UNCHANGED <<hist, triple, session_elapsed, flags, ec, sd, cfg, cf, session_records>>

\* concurrent.futures: the worker takes the next pending work item and calls
\* its function; _end_focus_session_async returns at once when the shutdown
\* flag is set (lines 466-467).
WorkerPickup ==
    /\ wk.pc = "idle"
    /\ queue # <<>>
    /\ LET t == Head(queue)
       IN  IF fut[t].kind = "end" /\ shutdown_event THEN
                /\ fut' = [fut EXCEPT ![t] = DoneFuture]
                /\ active_futures' = active_futures \ {t}
                /\ UNCHANGED wk
           ELSE /\ fut' = [fut EXCEPT ![t].st = "running"]
                /\ wk' = [task |-> t, slept |-> 0,
                          pc |-> CASE fut[t].kind = "timer" -> "timer_loop"
                                   [] fut[t].kind = "end" -> "end_switch"
                                   [] OTHER -> "kids_loop"]
                /\ UNCHANGED active_futures
    /\ queue' = Tail(queue)
    /\ UNCHANGED <<hist, triple, session_elapsed, flags, lock, sw, focus_timer_future, ec,
                   sd, cfg, cf, ghosts>>

\* _focus_timer_worker, lines 441-443.
TimerInterrupted ==
    /\ wk.pc = "timer_loop"
    /\ wk.slept < fut[wk.task].dur
    /\ shutdown_event
    /\ WorkerDone
    /\ UNCHANGED <<hist, triple, session_elapsed, flags, lock, sw, ec, sd, cfg, cf, ghosts>>

\* _focus_timer_worker, lines 449-451.
TimerExpire ==
    /\ wk.pc = "timer_loop"
    /\ wk.slept >= fut[wk.task].dur
    /\ IF ~shutdown_event /\ ~transitioning
       THEN /\ wk' = [wk EXCEPT !.pc = "timer_sched"]
            /\ UNCHANGED futures
       ELSE WorkerDone
    /\ UNCHANGED <<hist, triple, session_elapsed, flags, lock, sw, ec, sd, cfg, cf, ghosts>>

\* _schedule_focus_end (lines 453-461) called from the timer worker; submit
\* raises RuntimeError once the executor is shut down.
TimerSchedule ==
    /\ wk.pc = "timer_sched"
    /\ IF ~shutdown_event /\ current_submode = "FOCUS" /\ ~executor_down
       THEN /\ FreeIds > 0
            /\ fut' = Finished(Submitted(fut, "end", 0))
            /\ queue' = Append(queue, NextId)
            /\ active_futures' = (active_futures \cup {NextId}) \ {wk.task}
            /\ wk' = IdleWorker
            /\ UNCHANGED focus_timer_future
       ELSE WorkerDone
    /\ UNCHANGED <<hist, triple, session_elapsed, flags, lock, sw, ec, sd, cfg, cf, ghosts>>

\* _end_focus_session_async, line 469.
EndSwitch ==
    /\ wk.pc = "end_switch"
    /\ sw.pc = "idle"
    /\ switch_to_mode("worker", EndFocusRequest)
    /\ UNCHANGED cf

\* DeviceController._checking_loop reaches its time limit, calls power_action
\* (is_warning is False, lines 134-140) and returns.  The loop tests is_timing
\* only, which the engine never clears.
KidsExpire ==
    /\ wk.pc = "kids_loop"
    /\ WorkerDone
    /\ UNCHANGED <<hist, triple, session_elapsed, flags, lock, sw, ec, sd, cfg, cf, ghosts>>

\* --------------------------------------------------- enforce_current_mode
\* _handle_blocked_app closes the window (active_block is True, line 35).
handles_blocked_app(obs) == obs.status = "Blocked"

\* _apply_window_restrictions, lines 187-195.
should_block(obs, settings) == Lower(obs.app) \in settings.blocked_apps

\* _apply_window_restrictions, lines 197-204.
should_minimize(obs, settings) ==
    /\ ~should_block(obs, settings)
    /\ Lower(obs.app) \in settings.minimized_apps

\* Lines 207-209 with a strict comparison at line 209.
focus_time_over_strictly(settings) ==
    /\ current_submode = "FOCUS"
    /\ settings.duration > 0
    /\ session_elapsed # NoStart
    /\ session_elapsed > settings.duration

\* _apply_window_restrictions, lines 207-209.
focus_time_over(settings) ==
    /\ current_submode = "FOCUS"
    /\ settings.duration > 0
    /\ session_elapsed # NoStart
    /\ session_elapsed >= settings.duration

\* Line 158 without the test of the shutdown flag.
enforce_returns_early_unless_shutdown(obs) == obs = NoObservation \/ transitioning

\* enforce_current_mode, line 158.
enforce_returns_early(obs) == obs = NoObservation \/ transitioning \/ shutdown_event

\* enforce_current_mode up to the call of _schedule_focus_end at line 210.
EnforceCalled(obs) ==
    /\ lock = "free"
    /\ lock' = "enforce"
    /\ IF enforce_returns_early(obs) THEN
            ec' = [IdleEnforce EXCEPT !.pc = "exit", !.obs = obs]
       ELSE LET settings == get_current_mode_settings
                closes == (IF handles_blocked_app(obs) THEN 1 ELSE 0)
                          + (IF settings.present /\ should_block(obs, settings)
                             THEN 1 ELSE 0)
                over == settings.present /\ focus_time_over(settings)
            IN  /\ over => FreeIds > Reserve
                /\ ec' = [pc |-> IF over THEN "sched" ELSE "exit",
                          obs |-> obs,
                          applied |-> TRUE,
                          close_tab |-> IF obs.window_type = "browser" THEN closes ELSE 0,
                          close_window |-> IF obs.window_type = "browser" THEN 0 ELSE closes,
                          minimize |-> IF settings.present /\ should_minimize(obs, settings)
                                       THEN 1 ELSE 0,
                          scheduled |-> FALSE]
    /\ UNCHANGED <<triple, session_elapsed, flags, sw, futures, wk, sd, cfg, cf, ghosts>>

\* The same for a caller other than add_window_info.
EnforceCall(obs) == EnforceCalled(obs) /\ UNCHANGED hist

Enforce(observations) == \E obs \in observations : EnforceCall(obs)

\* _schedule_focus_end (lines 453-461) called from enforce_current_mode.
EnforceSchedule ==
    /\ ec.pc = "sched"
    /\ IF ~shutdown_event /\ current_submode = "FOCUS"
       THEN /\ FreeIds > 0
            /\ fut' = Submitted(fut, "end", 0)
            /\ queue' = Append(queue, NextId)
            /\ active_futures' = active_futures \cup {NextId}
            /\ ec' = [ec EXCEPT !.pc = "exit", !.scheduled = TRUE]
            /\ UNCHANGED focus_timer_future
       ELSE /\ ec' = [ec EXCEPT !.pc = "exit"]
            /\ UNCHANGED futures
    /\ UNCHANGED <<hist, triple, session_elapsed, flags, lock, sw, wk, sd, cfg, cf, ghosts>>

\* enforce_current_mode returns and releases mode_lock.
EnforceReturned ==
    /\ ec.pc = "exit"
    /\ lock' = "free"
    /\ ec' = IdleEnforce
    /\ UNCHANGED <<triple, session_elapsed, flags, sw, futures, wk, sd, cfg, cf, ghosts>>

\* The same for a caller other than add_window_info.
EnforceReturn == EnforceReturned /\ UNCHANGED hist

\* ------------------------------------------------------ _graceful_shutdown
\* Lines 104-105 (and line 650 of cleanup): the test of the flag.  The
\* threads are alike, so they enter in order.
ShutdownCheck(p) ==
    /\ sd[p] = "idle"
    /\ \A q \in ShutdownThreads : q < p => sd[q] # "idle"
    /\ sd' = [sd EXCEPT ![p] = IF shutdown_event THEN "noop" ELSE "set"]
    /\ UNCHANGED <<hist, triple, session_elapsed, flags, lock, sw, futures, wk, ec, cfg, cf,
                   ghosts>>

\* Line 108.
ShutdownSet(p) ==
    /\ sd[p] = "set"
    /\ shutdown_event' = TRUE
    /\ sd' = [sd EXCEPT ![p] = "body"]
    /\ UNCHANGED <<hist, triple, session_elapsed, transitioning, executor_down, lock, sw,
                   futures, wk, ec, cfg, cf, ghosts>>

\* _cancel_all_futures: pending futures are cancelled, the set is cleared.
CancelledAll(f) ==
    [i \in TaskIds |-> IF i \in active_futures /\ f[i].st = "pending"
                       THEN CancelledFuture ELSE f[i]]

\* The body of _graceful_shutdown storing Standard/Normal itself.
ShutdownBody_resets_state(p) ==
    /\ sd[p] = "body"
    /\ lock = "free"
    /\ transitioning' = TRUE
    /\ fut' = CancelledAll(fut)
    /\ queue' = SelectSeq(queue, LAMBDA i : i \notin active_futures)
    /\ active_futures' = {}
    /\ IF focus_session_open THEN SessionSaved ELSE UNCHANGED session_records
    /\ executor_down' = TRUE
    /\ sd' = [sd EXCEPT ![p] = "done"]
    /\ current_mode' = "STANDARD"
    /\ current_submode' = "NORMAL"
    /\ current_focus_type' = None
    /\ UNCHANGED <<hist, session_elapsed, shutdown_event, lock, sw,
                   focus_timer_future, wk, ec, cfg, cf, session_notifications>>

\* Lines 111-133, under mode_lock.
ShutdownBody(p) ==
    /\ sd[p] = "body"
    /\ lock = "free"
    /\ transitioning' = TRUE
    /\ fut' = CancelledAll(fut)
    /\ queue' = SelectSeq(queue, LAMBDA i : i \notin active_futures)
    /\ active_futures' = {}
    /\ IF focus_session_open THEN SessionSaved ELSE UNCHANGED session_records
    /\ executor_down' = TRUE
    /\ sd' = [sd EXCEPT ![p] = "done"]
    /\ UNCHANGED <<hist, triple, session_elapsed, shutdown_event, lock, sw,
                   focus_timer_future, wk, ec, cfg, cf, session_notifications>>

Shutdown == \E p \in ShutdownThreads :
    ShutdownCheck(p) \/ ShutdownSet(p) \/ ShutdownBody(p)

\* Executions of the body of _graceful_shutdown so far.
shutdown_bodies == Cardinality({p \in ShutdownThreads : sd[p] = "done"})

\* ------------------------------------------------------------------ time
\* One clock tick: datetime.now() advances and a sleeping timer worker adds
\* the slice to its total (line 447).
Tick ==
    /\ \/ session_elapsed # NoStart /\ session_elapsed < MaxElapsed
       \/ wk.pc = "timer_loop" /\ wk.slept < fut[wk.task].dur
    /\ session_elapsed' = IF session_elapsed # NoStart /\ session_elapsed < MaxElapsed
                          THEN session_elapsed + 1 ELSE session_elapsed
    /\ wk' = IF wk.pc = "timer_loop" /\ wk.slept < fut[wk.task].dur
             THEN [wk EXCEPT !.slept = wk.slept + 1] ELSE wk
    /\ UNCHANGED <<hist, triple, flags, lock, sw, futures, ec, sd, cfg, cf, ghosts>>

\* -------------------------------------------------------- WindowHistory
\* _should_start_new_session with >= at line 154.
should_start_new_session_at_gap(app_name, current_time) ==
    \/ current_session = NoSession
    \/ sessions[current_session].app_name # app_name
    \/ /\ last_window_time # NoTime
       /\ current_time - last_window_time >= session_gap_seconds

\* _should_start_new_session
should_start_new_session(app_name, current_time) ==
    \/ current_session = NoSession
    \/ sessions[current_session].app_name # app_name
    \/ /\ last_window_time # NoTime
       /\ current_time - last_window_time > session_gap_seconds

\* Lines 164-168 measuring the duration up to the previous observation.
session_ended_at_last_seen(session, end_time) ==
    [session EXCEPT !.end_time = end_time,
                    !.total_duration = last_window_time - session.start_time]

\* _end_current_session, lines 164-168.
session_ended(session, end_time) ==
    [session EXCEPT !.end_time = end_time,
                    !.total_duration = end_time - session.start_time]

\* _update_app_statistics adding the session's time twice.
update_app_statistics_twice(statistics, session) ==
    [statistics EXCEPT ![session.app_name] =
        [@ EXCEPT !.total_time = @ + 2 * session.total_duration,
                  !.session_count = @ + 1]]

\* AppStatistics.update_averages
update_averages(stats) ==
    IF stats.session_count > 0
    THEN [stats EXCEPT !.average_session_duration =
                           Quotient(stats.total_time, stats.session_count)]
    ELSE stats

\* Lines 249-255 and 273 with the latest duration stored as longest_session.
statistics_folded_longest_is_latest(stats, session) ==
    update_averages(
        [stats EXCEPT !.total_time = @ + session.total_duration,
                      !.session_count = @ + 1,
                      !.last_used = IF session.end_time # NoTime THEN session.end_time
                                    ELSE session.start_time,
                      !.longest_session = session.total_duration])

\* Lines 249-255 and 273 for the statistics of the session's app.
statistics_folded(stats, session) ==
    update_averages(
        [stats EXCEPT !.total_time = @ + session.total_duration,
                      !.session_count = @ + 1,
                      !.last_used = IF session.end_time # NoTime THEN session.end_time
                                    ELSE session.start_time,
                      !.longest_session = IF session.total_duration > @
                                          THEN session.total_duration ELSE @])

\* _update_app_statistics: total_time, session_count, last_used,
\* longest_session and the average.
update_app_statistics(statistics, session) ==
    [statistics EXCEPT ![session.app_name] = statistics_folded(@, session)]

\* _end_current_session without lines 164-182: the session is only detached.
end_current_session_detach_only(end_time) ==
    /\ current_session' = NoSession
    /\ UNCHANGED <<sessions, app_statistics>>

\* _end_current_session without line 185: current_session keeps the session.
end_current_session_keeps_reference(end_time) ==
    /\ UNCHANGED current_session
    /\ IF current_session = NoSession
       THEN UNCHANGED <<sessions, app_statistics>>
       ELSE LET session == session_ended(sessions[current_session], end_time)
            IN  /\ sessions' = [sessions EXCEPT ![current_session] = session]
                /\ app_statistics' = update_app_statistics(app_statistics, session)

\* _end_current_session
end_current_session(end_time) ==
    /\ current_session' = NoSession
    /\ IF current_session = NoSession
       THEN UNCHANGED <<sessions, app_statistics>>
       ELSE LET session == session_ended(sessions[current_session], end_time)
            IN  /\ sessions' = [sessions EXCEPT ![current_session] = session]
                /\ app_statistics' = update_app_statistics(app_statistics, session)

\* Line 192: context_changes of a new session.
first_context(window_info) ==
    IF window_info.context # NoContext THEN <<window_info.context>> ELSE <<>>

\* The pair (timestamp, status) of lines 194 and 224.
status_change(window_info) == <<window_info.timestamp, window_info.status>>

\* Line 229: the session is written to the database every tenth record.
records_per_update == 10

\* Lines 213-215 without the test of membership.
context_changes_always_appended(context_changes, window_info) ==
    IF window_info.context # NoContext
    THEN Append(context_changes, window_info.context)
    ELSE context_changes

\* _update_current_session, lines 213-215.
context_changes_updated(context_changes, window_info) ==
    IF /\ window_info.context # NoContext
       /\ \A i \in DOMAIN context_changes : context_changes[i] # window_info.context
    THEN Append(context_changes, window_info.context)
    ELSE context_changes

\* Lines 222-224 without the comparison with the last status.
status_changes_always_appended(status_changes, window_info) ==
    Append(status_changes, status_change(window_info))

\* _update_current_session, lines 222-224.
status_changes_updated(status_changes, window_info) ==
    IF /\ status_changes # <<>>
       /\ status_changes[Len(status_changes)][2] # window_info.status
    THEN Append(status_changes, status_change(window_info))
    ELSE status_changes

\* _update_current_session with lines 232-234 run for every record.
update_current_session_every_record(session, window_info, current_time) ==
    [session EXCEPT !.context_changes = context_changes_updated(@, window_info),
                    !.status_changes = status_changes_updated(@, window_info),
                    !.window_count = @ + 1,
                    !.total_duration = current_time - session.start_time]

\* _update_current_session: contexts, statuses, window_count, and every tenth
\* record the duration so far (the session was saved when it was created, so
\* it has a session_id).
update_current_session(session, window_info, current_time) ==
    LET count == session.window_count + 1
    IN  [session EXCEPT !.context_changes = context_changes_updated(@, window_info),
                        !.status_changes = status_changes_updated(@, window_info),
                        !.window_count = count,
                        !.total_duration = IF count % records_per_update = 0
                                           THEN current_time - session.start_time
                                           ELSE @]

\* add_window_info calling enforce_current_mode for every observation.
add_window_info_always_enforces(o) ==
    /\ hist_lock = "free"
    /\ tk.pc = "idle"
    /\ raw_history' = Append(raw_history, o)
    /\ hist_lock' = "tracker"
    /\ UNCHANGED last_window_time
    /\ IF \/ current_session = NoSession
          \/ sessions[current_session].app_name # o.app
          \/ /\ last_window_time # NoTime
             /\ o.timestamp - last_window_time > session_gap_seconds
       THEN /\ current_session' = NoSession
            /\ tk' = [pc |-> "start", obs |-> o, boundary |-> TRUE, calls |-> 0]
            /\ IF current_session = NoSession
               THEN UNCHANGED <<sessions, app_statistics>>
               ELSE LET session == session_ended(sessions[current_session], o.timestamp)
                    IN  /\ sessions' = [sessions EXCEPT ![current_session] = session]
                        /\ app_statistics' =
                               update_app_statistics(app_statistics, session)
       ELSE /\ sessions' = [sessions EXCEPT ![current_session] =
                                update_current_session(@, o, o.timestamp)]
            /\ tk' = [pc |-> "enforce", obs |-> o, boundary |-> FALSE, calls |-> 0]
            /\ UNCHANGED <<current_session, app_statistics>>
    /\ UNCHANGED <<loaded_statistics, controller>>

\* add_window_info up to line 124: the record is appended and the boundary
\* decided; at a boundary the open session is ended, otherwise it is
\* updated and the call runs to its end (lines 129-140).
add_window_info(o) ==
    /\ hist_lock = "free"
    /\ tk.pc = "idle"
    /\ raw_history' = Append(raw_history, o)
    /\ IF should_start_new_session(o.app, o.timestamp)
       THEN /\ end_current_session(o.timestamp)
            /\ hist_lock' = "tracker"
            /\ tk' = [pc |-> "start", obs |-> o, boundary |-> TRUE, calls |-> 0]
            /\ UNCHANGED last_window_time
       ELSE /\ sessions' = [sessions EXCEPT ![current_session] =
                                update_current_session(@, o, o.timestamp)]
            /\ last_window_time' = o.timestamp
            /\ tk' = [IdleTracker EXCEPT !.obs = o]
            /\ UNCHANGED <<hist_lock, current_session, app_statistics>>
    /\ UNCHANGED <<loaded_statistics, controller>>

\* _start_new_session (line 125).
start_new_session ==
    /\ tk.pc = "start"
    /\ sessions' = Append(sessions, [app_name |-> tk.obs.app,
                                     start_time |-> tk.obs.timestamp,
                                     end_time |-> NoTime,
                                     total_duration |-> 0,
                                     context_changes |-> first_context(tk.obs),
                                     status_changes |-> <<status_change(tk.obs)>>,
                                     window_count |-> 1])
    /\ current_session' = Len(sessions) + 1
    /\ tk' = [tk EXCEPT !.pc = "enforce"]
    /\ UNCHANGED <<hist_lock, raw_history, last_window_time, app_statistics,
                   loaded_statistics, controller>>

\* The WindowInfo of an observation as enforce_current_mode reads it.
WindowInfoOf(o) == [app |-> o.app, status |-> o.status, window_type |-> "desktop"]

\* Line 127: add_window_info calls enforce_current_mode, holding its lock.
add_window_info_enforces ==
    /\ tk.pc = "enforce"
    /\ EnforceCalled(WindowInfoOf(tk.obs))
    /\ tk' = [tk EXCEPT !.pc = "enforcing", !.calls = @ + 1]
    /\ UNCHANGED <<hist_lock, raw_history, sessions, current_session,
                   last_window_time, app_statistics, loaded_statistics>>

\* enforce_current_mode returns; lines 129-140 and the release of the lock.
add_window_info_returns ==
    /\ tk.pc = "enforcing"
    /\ EnforceReturned
    /\ last_window_time' = tk.obs.timestamp
    /\ hist_lock' = "free"
    /\ tk' = [tk EXCEPT !.pc = "idle"]
    /\ UNCHANGED <<raw_history, sessions, current_session, app_statistics,
                   loaded_statistics>>

\* force_end_current_session
force_end_current_session ==
    /\ hist_lock = "free"
    /\ IF current_session # NoSession /\ last_window_time # NoTime
       THEN end_current_session(last_window_time)
       ELSE UNCHANGED <<sessions, app_statistics, current_session>>
    /\ UNCHANGED <<hist_lock, tk, raw_history, last_window_time, loaded_statistics,
                   controller>>

\* ------------------------------------------------------------------ Next
ValidRequests ==
    {r \in Requests : validate_mode_combination(r.mode, r.submode, r.focus_type)}

Switching ==
    \/ SwSetMode
    \/ SwSetSubmode
    \/ SwSetFocus
    \/ SwInit
    \/ SwRollbackMode
    \/ SwRollbackSubmode
    \/ SwRollbackFocus
    \/ UserReturn

Worker ==
    \/ WorkerPickup
    \/ TimerInterrupted
    \/ TimerExpire
    \/ TimerSchedule
    \/ EndSwitch
    \/ EndReturn
    \/ KidsExpire

Next ==
    \/ UserSwitch(Requests)
    \/ Switching
    \/ Worker
    \/ Enforce(Observations \cup {NoObservation})
    \/ EnforceSchedule
    \/ EnforceReturn
    \/ Shutdown
    \/ Tick

Spec == Init /\ [][Next]_vars

\* The tracking loop and a caller of force_end_current_session, with the
\* engine in the state its constructor leaves.
HistoryNext ==
    \/ \E o \in ReceivedObservations : add_window_info(o)
    \/ start_new_session
    \/ add_window_info_enforces
    \/ add_window_info_returns
    \/ force_end_current_session

\* The history after construction over a database of earlier statistics.
LoadedInit ==
    /\ ControllerInit
    /\ cfg.kids = "noduration"
    /\ \E statistics \in LoadableStatistics : HistoryInit(statistics)

HistorySpec == LoadedInit /\ [][HistoryNext]_vars

\* ================================================================ claims
LegalTriples ==
    {<<"STANDARD", "NORMAL", None>>, <<"STANDARD", "FOCUS", "DEEP">>,
     <<"STANDARD", "FOCUS", "LIGHT">>, <<"STANDARD", "FOCUS", "CUSTOM">>,
     <<"KIDS", None, None>>}

\* A switch_to_mode call is between its first store to the triple and its return.
SwitchExecuting == sw.pc \notin {"idle", "exit"}

\* What a call must leave alone to have "changed nothing": the triple,
\* mode_start_time, the futures and the worker running them, the records.
CallChangedNothing ==
    UNCHANGED <<triple, session_elapsed, fut, queue, active_futures,
                focus_timer_future, wk, session_records>>

\* A switch_to_mode call begins in this step.
CallBegins == sw.pc = "idle" /\ sw'.pc # "idle"

\* C1: whenever no switch_to_mode call is executing (from construction on,
\* and after calls that succeeded, were rejected or were rolled back), the
\* triple (current_mode, current_submode, current_focus_type) is one of the
\* five legal combinations.
C1_LegalTriple == ~SwitchExecuting => triple \in LegalTriples

\* A switch out of a focus state was rolled back and has returned.
C1_Witness == sw.pc = "exit" /\ sw.init_failed /\ current_submode = "FOCUS"

\* C2: when new-mode initialization fails inside a switch to a valid state
\* different from the current one, switch_to_mode returns false and the
\* triple is the triple from before the call.
C2_RollbackRestores ==
    (sw.pc = "exit" /\ sw.init_failed) => (~sw.ret /\ triple = sw.pre)

\* A failed switch from a focus state to Kids has returned.
C2_Witness ==
    /\ sw.pc = "exit"
    /\ sw.init_failed
    /\ sw.req.mode = "KIDS"
    /\ sw.pre \in {<<"STANDARD", "FOCUS", "DEEP">>, <<"STANDARD", "FOCUS", "LIGHT">>}

\* The request that names the current triple.
CurrentAsRequest ==
    [mode |-> current_mode, submode |-> current_submode,
     focus_type |-> current_focus_type]

C3_SameStateCall ==
    /\ CallBegins
    /\ triple \in LegalTriples
    /\ sw'.req = CurrentAsRequest

C3_ReturnsTrueNoEffect == sw'.pc = "exit" /\ sw'.ret /\ CallChangedNothing

\* C3 as stated: in every legal state, a switch_to_mode call that names the
\* current state returns true and changes nothing.
C3_Idempotent == [][C3_SameStateCall => C3_ReturnsTrueNoEffect]_vars

\* C3 amended: the same, for calls made while the shutdown flag is not set.
C3_IdempotentBeforeShutdown ==
    [][(C3_SameStateCall /\ ~shutdown_event) => C3_ReturnsTrueNoEffect]_vars

\* A call naming the current deep-focus state returned true while the
\* session's timer was pending or running.
C3_Witness ==
    /\ sw.pc = "exit"
    /\ sw.ret
    /\ sw.old = NoTriple
    /\ sw.req = CurrentAsRequest
    /\ triple = <<"STANDARD", "FOCUS", "DEEP">>
    /\ focus_timer_future \in LiveTimers

\* The invalid requests C4 lists.
C4_Invalid(r) ==
    \/ r.mode = "KIDS" /\ (r.submode # None \/ r.focus_type # None)
    \/ r.mode = "STANDARD" /\ r.submode = "FOCUS" /\ r.focus_type = None
    \/ r.mode = "STANDARD" /\ r.submode \in {"NORMAL", None} /\ r.focus_type # None

\* C4: in every state, a switch_to_mode call with an invalid request returns
\* false and changes nothing.
C4_InvalidRejected ==
    [][(CallBegins /\ C4_Invalid(sw'.req))
        => (sw'.pc = "exit" /\ ~sw'.ret /\ CallChangedNothing)]_vars

\* Standard with the submode omitted and a focus type was rejected during a
\* focus session.
C4_Witness ==
    /\ sw.pc = "exit"
    /\ ~sw.ret
    /\ sw.req.mode = "STANDARD" /\ sw.req.submode = None /\ sw.req.focus_type # None
    /\ current_submode = "FOCUS"
    /\ ~shutdown_event

\* C5 as stated: once the shutdown flag is set, the triple never changes.
C5_NoChangeAfterFlag == [][shutdown_event => triple' = triple]_vars

\* The shutdown flag is set and no switch_to_mode call is executing.
C5_Frozen == shutdown_event /\ ~SwitchExecuting

\* C5 amended: once the shutdown flag is set and the switch_to_mode call that
\* was executing at that moment, if any, has returned, every later call
\* returns false and the triple never changes again.
C5_FrozenAfterShutdown ==
    [][C5_Frozen => /\ C5_Frozen'
                    /\ triple' = triple
                    /\ CallBegins => ~sw'.ret]_vars

\* After the flag was set, a request for another state was refused while a
\* focus session was current.
C5_Witness ==
    /\ shutdown_event
    /\ sw.pc = "exit"
    /\ ~sw.ret
    /\ sw.req = EndFocusRequest
    /\ current_submode = "FOCUS"

\* C6: when an enforce_current_mode call has applied the active policy to an
\* observation whose app is in the policy's blocked_apps, it has issued
\* exactly one close (tab or window) and no minimize.
C6_OneCloseNoMinimize ==
    (/\ ec.pc \in {"sched", "exit"}
     /\ ec.applied
     /\ get_current_mode_settings.present
     /\ ec.obs.app \in get_current_mode_settings.blocked_apps)
    => (ec.close_tab + ec.close_window = 1 /\ ec.minimize = 0)

\* C8: while no shutdown has been invoked, a focus session has had at most
\* one completion notification.
C8_NotifiedAtMostOnce ==
    (\A p \in ShutdownThreads : sd[p] = "idle") => session_notifications <= 1

\* Every invocation of _graceful_shutdown has returned, one at least ran the
\* body, and no switch_to_mode call is in progress.
ShutdownOver ==
    /\ \A p \in ShutdownThreads : sd[p] \in {"idle", "noop", "done"}
    /\ shutdown_bodies >= 1
    /\ sw.pc = "idle"

\* C9: after a shutdown that found a focus session active, exactly one
\* record of that session has been persisted.
C9_OneRecordAtShutdown ==
    (ShutdownOver /\ current_submode = "FOCUS") => session_records = 1

\* C10: the body of _graceful_shutdown has executed at most once.
C10_BodyAtMostOnce == shutdown_bodies <= 1

\* ------------------------------------------------------------ fairness
\* Time passes; a thread inside switch_to_mode or enforce_current_mode runs
\* on to its return; the executor's worker runs the task at the head of its
\* queue and, when it needs mode_lock, obtains it although other callers
\* take and release the lock again and again.
Fairness ==
    /\ WF_vars(Tick)
    /\ WF_vars(Switching)
    /\ WF_vars(EnforceSchedule \/ EnforceReturn)
    /\ WF_vars(WorkerPickup \/ TimerInterrupted \/ TimerExpire \/ TimerSchedule
                \/ EndReturn \/ KidsExpire)
    /\ SF_vars(EndSwitch)

\* The calls whose arguments decide what the engine does with its timers:
\* switch_to_mode with each valid request, enforce_current_mode with one
\* observation (what it closes or minimizes leaves the engine's state alone).
LiveObservations == {[app |-> "steam", status |-> "Neutral", window_type |-> "desktop"]}

LiveNext ==
    \/ UserSwitch(ValidRequests)
    \/ Switching
    \/ Worker
    \/ Enforce(LiveObservations)
    \/ EnforceSchedule
    \/ EnforceReturn
    \/ Shutdown
    \/ Tick

LiveSpec == Init /\ [][LiveNext]_vars /\ Fairness

\* A focus session whose policy has a duration is open and no
\* switch_to_mode call is in progress.
TimedFocusSession ==
    /\ sw.pc = "idle"
    /\ current_submode = "FOCUS"
    /\ get_current_mode_settings.present
    /\ get_current_mode_settings.duration > 0
    /\ session_elapsed # NoStart

UserCalls == sw.pc # "idle" /\ sw.owner = "user"

ShutdownInvoked == \E p \in ShutdownThreads : sd[p] # "idle"

\* C7: an open focus session whose policy has a duration leads to
\* Standard/Normal, unless the user calls switch_to_mode again or shutdown
\* is invoked first.
C7_FocusEndsByItself ==
    TimedFocusSession
        ~> (\/ triple = <<"STANDARD", "NORMAL", None>>
            \/ UserCalls
            \/ ShutdownInvoked)

\* The worker has ended a deep-focus session entered from Standard/Normal:
\* its switch back has initialized Standard/Normal and is about to return.
C7_Witness ==
    /\ sw.pc = "exit"
    /\ sw.owner = "worker"
    /\ sw.ret
    /\ sw.old = <<"STANDARD", "FOCUS", "DEEP">>
    /\ triple = <<"STANDARD", "NORMAL", None>>
    /\ ~ShutdownInvoked

\* ------------------------------------------------- the signal handler
\* signal_handler (lines 87-90) runs _graceful_shutdown on the main thread,
\* on top of whatever the main thread was executing, and ends with
\* sys.exit(0): once it has begun, the code it interrupted does not run
\* again.  Here the main thread is the caller of switch_to_mode, invocation 1
\* of _graceful_shutdown is the handler, and invocation 2 is cleanup() on
\* another thread.
SignalHandler == 1

MainThreadRuns == sd[SignalHandler] = "idle"

\* Steps of a switch_to_mode call: those of the main thread's call wait for
\* the handler.
MainSwitching == (sw.owner = "user" => MainThreadRuns) /\ Switching

SignalNext ==
    \/ MainThreadRuns /\ UserSwitch(ValidRequests)
    \/ MainSwitching
    \/ Worker
    \/ Enforce(LiveObservations)
    \/ EnforceSchedule
    \/ EnforceReturn
    \/ Shutdown
    \/ Tick

\* Fairness with the main thread's steps as the handler allows them; a
\* thread inside _graceful_shutdown runs on, and obtains mode_lock if the
\* lock is free again and again.
SignalFairness ==
    /\ WF_vars(Tick)
    /\ WF_vars(MainSwitching)
    /\ WF_vars(EnforceSchedule \/ EnforceReturn)
    /\ WF_vars(WorkerPickup \/ TimerInterrupted \/ TimerExpire \/ TimerSchedule
                \/ EndReturn \/ KidsExpire)
    /\ SF_vars(EndSwitch)
    /\ \A p \in ShutdownThreads :
        /\ WF_vars(ShutdownSet(p))
        /\ SF_vars(ShutdownBody(p))

SignalSpec == Init /\ [][SignalNext]_vars /\ SignalFairness

\* C11: every invocation of _graceful_shutdown that has passed the test of
\* the flag eventually returns, the signal handler's included.
C11_ShutdownReturns ==
    \A p \in ShutdownThreads : (sd[p] \in {"set", "body"}) ~> (sd[p] = "done")

\* ------------------------------------------------ WindowHistory claims
Last(seq) == seq[Len(seq)]

\* The sessions whose end_time is unset.
OpenSessions == {i \in DOMAIN sessions : sessions[i].end_time = NoTime}

\* add_window_info receives an observation in this step.
ObservationArrives == Len(raw_history') = Len(raw_history) + 1

\* A session object is created in this step.
SessionCreated == Len(sessions') = Len(sessions) + 1

\* C12: add_window_info treats the observation it receives as a boundary if
\* and only if no session is open, or the open session is of another app, or
\* the observation is more than session_gap_seconds later than the previous
\* one.
C12_BoundaryRule ==
    [][ObservationArrives =>
        LET o == Last(raw_history')
        IN  tk'.boundary <=>
               \/ OpenSessions = {}
               \/ \E i \in OpenSessions : sessions[i].app_name # o.app
               \/ /\ raw_history # <<>>
                  /\ o.timestamp - Last(raw_history).timestamp > session_gap_seconds
       ]_vars

\* Two observations of one app more than the threshold apart: the second
\* ended the session of the first and began another.
C12_Witness ==
    /\ tk.pc = "idle"
    /\ Len(raw_history) >= 2
    /\ Last(raw_history).app = raw_history[Len(raw_history) - 1].app
    /\ Last(raw_history).timestamp - raw_history[Len(raw_history) - 1].timestamp
         > session_gap_seconds
    /\ Len(sessions) >= 2
    /\ sessions[Len(sessions) - 1].app_name = Last(sessions).app_name
    /\ sessions[Len(sessions) - 1].end_time = Last(sessions).start_time

\* C13: at most one session is open in every state, and a session object is
\* created only when no session is open and current_session is unset.
C13_OneOpenSession ==
    /\ [](Cardinality(OpenSessions) <= 1)
    /\ [][SessionCreated => (OpenSessions = {} /\ current_session = NoSession)]_vars

\* A third session is open after two were finalized.
C13_Witness ==
    /\ Len(sessions) >= 3
    /\ OpenSessions = {Len(sessions)}
    /\ current_session = Len(sessions)

NonDecreasing(seq) ==
    \A i \in 1 .. Len(seq) - 1 : seq[i].timestamp <= seq[i + 1].timestamp

\* C14: while the timestamps received are non-decreasing, a session starts
\* at the timestamp of the observation that opened it, and a session
\* finalized at a boundary ends at the timestamp of the observation that
\* triggered the boundary, with total_duration = end_time - start_time.
C14_BoundaryTimes ==
    [][NonDecreasing(raw_history') =>
        /\ SessionCreated =>
              /\ Last(sessions').start_time = Last(raw_history).timestamp
              /\ Last(sessions').app_name = Last(raw_history).app
              /\ \A i \in DOMAIN sessions : sessions'[i] = sessions[i]
        /\ (ObservationArrives /\ tk'.boundary) =>
              \A i \in OpenSessions :
                 /\ sessions'[i].start_time = sessions[i].start_time
                 /\ sessions'[i].end_time = Last(raw_history').timestamp
                 /\ sessions'[i].total_duration
                      = Last(raw_history').timestamp - sessions[i].start_time
       ]_vars

\* One app at 0, 1, 2, then another at 3: one finalized session [0, 3) of
\* duration 3 and an open session starting at 3.
C14_Witness ==
    /\ [i \in 1 .. Len(raw_history) |-> <<raw_history[i].app, raw_history[i].timestamp>>]
         = << <<"steam", 0>>, <<"steam", 1>>, <<"steam", 2>>, <<"notion", 3>> >>
    /\ Len(sessions) = 2
    /\ sessions[1].app_name = "steam"
    /\ sessions[1].start_time = 0
    /\ sessions[1].end_time = 3
    /\ sessions[1].total_duration = 3
    /\ sessions[1].window_count = 3
    /\ sessions[2].app_name = "notion"
    /\ sessions[2].start_time = 3
    /\ sessions[2].end_time = NoTime

RECURSIVE FinalizedCount(_, _)
\* The finalized sessions of an app among the first n sessions.
FinalizedCount(app, n) ==
    IF n = 0 THEN 0
    ELSE FinalizedCount(app, n - 1)
         + (IF sessions[n].app_name = app /\ sessions[n].end_time # NoTime
            THEN 1 ELSE 0)

RECURSIVE FinalizedTime(_, _)
\* The sum of their total_duration.
FinalizedTime(app, n) ==
    IF n = 0 THEN 0
    ELSE FinalizedTime(app, n - 1)
         + (IF sessions[n].app_name = app /\ sessions[n].end_time # NoTime
            THEN sessions[n].total_duration ELSE 0)

\* Every finalized session is in the statistics once, no open one is.
StatisticsFolded ==
    \A app \in HistoryApps :
        /\ app_statistics[app].session_count
             = loaded_statistics[app].session_count + FinalizedCount(app, Len(sessions))
        /\ app_statistics[app].total_time
             = loaded_statistics[app].total_time + FinalizedTime(app, Len(sessions))

\* enforce_current_mode is entered in this step.
EnforceInvoked == ec.pc = "idle" /\ ec'.pc # "idle"

\* C15: enforce_current_mode is invoked only for a boundary observation, for
\* the first time for that observation, when the previous session has been
\* finalized and folded and the new session is open; and when
\* add_window_info has returned it was invoked once for a boundary
\* observation and not at all for another.
C15_EnforceAtBoundaries ==
    /\ [][EnforceInvoked =>
            /\ tk.boundary
            /\ tk.calls = 0
            /\ tk'.calls = 1
            /\ ec'.obs.app = tk.obs.app
            /\ OpenSessions = {Len(sessions)}
            /\ current_session = Len(sessions)
            /\ Last(sessions).app_name = tk.obs.app
            /\ Last(sessions).start_time = tk.obs.timestamp
            /\ StatisticsFolded
         ]_vars
    /\ []((tk.pc = "idle" /\ raw_history # <<>>)
            => tk.calls = IF tk.boundary THEN 1 ELSE 0)

\* add_window_info has returned from a boundary observation that ended an
\* earlier session, after one call of enforce_current_mode.
C15_Witness ==
    /\ tk.pc = "idle"
    /\ tk.boundary
    /\ tk.calls = 1
    /\ Len(sessions) >= 2
    /\ last_window_time = tk.obs.timestamp

\* C16: for each app, session_count has grown by the number of the app's
\* finalized sessions and total_time by the sum of their total_duration.
C16_StatisticsMatchSessions == StatisticsFolded

\* Two sessions of an app with earlier statistics are finalized, a third
\* session is open.
C16_Witness ==
    /\ loaded_statistics["steam"].session_count = 1
    /\ FinalizedCount("steam", Len(sessions)) = 2
    /\ FinalizedTime("steam", Len(sessions)) > 0
    /\ OpenSessions # {}

\* C17: force_end_current_session leaves no session open; the session that
\* was open gets the timestamp of the last observation received as end_time
\* and is folded into the statistics once; with no session open nothing
\* changes.  The observation after it opens a session and leaves the
\* statistics alone.
C17_ForcedEnd ==
    [][/\ force_end_current_session =>
            /\ current_session' = NoSession
            /\ OpenSessions' = {}
            /\ \A i \in OpenSessions :
                  /\ sessions'[i].end_time = Last(raw_history).timestamp
                  /\ sessions'[i].total_duration
                       = Last(raw_history).timestamp - sessions[i].start_time
                  /\ \A app \in HistoryApps :
                        /\ app_statistics'[app].total_time
                             = app_statistics[app].total_time
                               + (IF app = sessions[i].app_name
                                  THEN sessions'[i].total_duration ELSE 0)
                        /\ app_statistics'[app].session_count
                             = app_statistics[app].session_count
                               + (IF app = sessions[i].app_name THEN 1 ELSE 0)
            /\ OpenSessions = {} => UNCHANGED vars
       /\ (ObservationArrives /\ OpenSessions = {}) =>
            /\ tk'.boundary
            /\ app_statistics' = app_statistics
      ]_vars

\* A session was ended by force_end_current_session, and a later observation
\* has opened another one.
C17_Witness ==
    /\ Len(sessions) = 2
    /\ Len(raw_history) = 3
    /\ sessions[1].end_time = raw_history[2].timestamp
    /\ sessions[1].end_time < raw_history[3].timestamp
    /\ sessions[2].start_time = raw_history[3].timestamp
    /\ app_statistics[sessions[1].app_name].session_count
         = loaded_statistics[sessions[1].app_name].session_count + 1
    /\ OpenSessions = {2}

\* ------------------------------------------------------- Kids mode claim
\* switch_to_mode(ModeType.KIDS)
KidsRequest == [mode |-> "KIDS", submode |-> None, focus_type |-> None]

\* A switch_to_mode(KIDS) call that began in a non-Kids state returns in this
\* step, and the shutdown flag is not set.
KidsCallReturns ==
    /\ sw.pc # "exit"
    /\ sw'.pc = "exit"
    /\ sw'.req = KidsRequest
    /\ sw'.pre[1] # "KIDS"
    /\ ~shutdown_event'

\* C20: with the engine not shutting down, a switch_to_mode(KIDS) call from a
\* non-Kids state returns true, leaves the state Kids and has submitted one
\* tracked countdown task, whichever kids record the repository holds.
C20_KidsSwitchSucceeds ==
    [][KidsCallReturns =>
          /\ sw'.ret
          /\ triple' = <<"KIDS", None, None>>
          /\ Cardinality(Used') = Cardinality(Used) + 1
          /\ focus_timer_future' \in active_futures' \ active_futures
          /\ fut'[focus_timer_future'].kind = "kids"
      ]_vars

\* The same for a kids record that has a duration.
C20_WithDuration ==
    [][(KidsCallReturns /\ cfg.kids = "duration") =>
          /\ sw'.ret
          /\ triple' = <<"KIDS", None, None>>
          /\ Cardinality(Used') = Cardinality(Used) + 1
          /\ focus_timer_future' \in active_futures' \ active_futures
          /\ fut'[focus_timer_future'].kind = "kids"
      ]_vars

\* ------------------------------------------------ custom settings claim
\* Callers that start focus sessions with and without custom_settings.
CustomNext ==
    \/ \E focus_type \in {"DEEP", "LIGHT"}, custom_settings \in CustomSettings :
           switch_to_focus(focus_type, custom_settings)
    \/ UserSwitch(ValidRequests)
    \/ Switching
    \/ Worker
    \/ Shutdown
    \/ Tick

CustomSpec == Init /\ [][CustomNext]_vars

\* The duration the repository loaded for a focus type.
LoadedDuration(focus_type) == IF focus_type = "DEEP" THEN DeepTicks ELSE LightTicks

\* A switch_to_mode call without custom_settings has opened a session of a
\* focus type that has a record.
PlainFocusSwitchDone ==
    /\ sw.pc = "exit"
    /\ sw.ret
    /\ sw.old # NoTriple
    /\ sw.custom_settings = NoCustom
    /\ sw.req.submode = "FOCUS"
    /\ sw.req.focus_type \in {"DEEP", "LIGHT"}

\* C18: a session opened without custom_settings resolves the values the
\* repository loaded, whatever overrides earlier sessions of that focus type
\* were given.
C18_OverridesLastOneSession ==
    PlainFocusSwitchDone =>
        /\ get_current_mode_settings.duration = LoadedDuration(sw.req.focus_type)
        /\ get_mode_setting(FocusKey(sw.req.focus_type)).duration
             = LoadedDuration(sw.req.focus_type)

\* ------------------------------------------------------ lock order claim
\* The tracking thread's observations: one window, one per clock tick.
TrackObservations ==
    {o \in HistoryObservations :
        /\ Len(raw_history) < MaxTracked
        /\ o.timestamp = Len(raw_history)
        /\ o.app = "notion"}

\* The tracking loop of WindowTracker with the engine it feeds: the main
\* thread switches modes and receives the signal, the executor's worker runs
\* the timer and end-focus tasks, another thread runs cleanup.
TrackNext ==
    \/ MainThreadRuns /\ UserSwitch(ValidRequests)
    \/ MainSwitching
    \/ Worker
    \/ \E o \in TrackObservations : add_window_info(o)
    \/ start_new_session
    \/ add_window_info_enforces
    \/ EnforceSchedule
    \/ add_window_info_returns
    \/ force_end_current_session
    \/ Shutdown
    \/ Tick

TrackSpec == Init /\ [][TrackNext]_vars

\* The thread that holds mode_lock can take its next step; for the main
\* thread that is a step of the signal handler while the handler runs.
ModeLockHolderRuns ==
    \/ ENABLED (MainSwitching \/ EndReturn \/ EnforceSchedule \/ add_window_info_returns)
    \/ /\ sw.owner = "user"
       /\ ENABLED (ShutdownSet(SignalHandler) \/ ShutdownBody(SignalHandler))

\* The tracking thread, which holds the session lock, can take its next step
\* or waits for a mode_lock whose holder can.
SessionLockHolderRuns ==
    \/ ENABLED (start_new_session \/ EnforceSchedule \/ add_window_info_returns)
    \/ tk.pc = "enforce" /\ (lock = "free" \/ ModeLockHolderRuns)

\* C19: the session lock is never held by a thread that waits forever for
\* mode_lock, and the thread that holds both locks took the session lock
\* first.
C19_NoLockWaitForever ==
    /\ hist_lock # "free" => SessionLockHolderRuns
    /\ lock = "enforce" => hist_lock = "tracker"

\* The order of the two locks alone.
C19_SessionLockFirst ==
    /\ lock = "enforce" => hist_lock = "tracker"
    /\ hist_lock = "tracker" => lock # "enforce" \/ tk.pc = "enforcing"

\* ------------------------------------------------- kids countdown claim
\* The countdown task calls power_action in this step.
PowerAction == wk.pc = "kids_loop" /\ wk'.pc = "idle"

\* Shutdown has run, or the engine has settled in a state other than Kids.
KidsNoLongerInForce ==
    \/ shutdown_bodies > 0
    \/ current_mode # "KIDS" /\ sw.pc = "idle"

\* C21: a countdown task never calls power_action once shutdown has run or
\* a switch_to_mode out of Kids has completed.
C21_NoPowerActionOutOfKids == [][PowerAction => ~KidsNoLongerInForce]_vars

\* ------------------------------------------------ session record claims
\* focus_sessions.json becomes unreadable or unwritable.
HistoryFileBreaks ==
    /\ history_file_writable
    /\ cfg' = [cfg EXCEPT !.history_file = "broken"]
    /\ UNCHANGED <<hist, triple, session_elapsed, flags, lock, sw, futures, wk, ec, sd, cf,
                   ghosts>>

\* The engine with a session history file that may break.
SaveNext ==
    \/ HistoryFileBreaks
    \/ UserSwitch(ValidRequests)
    \/ Switching
    \/ Worker
    \/ Shutdown
    \/ Tick

SaveSpec == Init /\ [][SaveNext]_vars

\* The state a request asks for (line 284 fills in the submode).
RequestedTriple(r) ==
    <<r.mode,
      IF r.submode # None THEN r.submode
      ELSE IF r.mode = "STANDARD" THEN "NORMAL" ELSE None,
      r.focus_type>>

EnforceApplied == ec.pc \in {"sched", "exit"} /\ ec.applied

\* The Action Gateway calls of the enforce_current_mode call in progress.
GatewayCalls == ec.close_tab + ec.close_window + ec.minimize

\* A performed switch_to_mode call for a focus type without record finishes
\* its initialization in this step.
UnconfiguredFocusEntered ==
    /\ sw.pc = "init"
    /\ sw'.pc = "exit"
    /\ sw.req.submode = "FOCUS"
    /\ sw.req.focus_type # None
    /\ ~get_mode_setting(FocusKey(sw.req.focus_type)).present

\* C23: a switch to a focus state that has no record returns true, enters
\* the state and starts no timer; and while that state is current an
\* enforce_current_mode call makes no Action Gateway call and schedules no
\* focus end, whatever the observation.
C23_NoRecordNoRestrictions ==
    /\ [][UnconfiguredFocusEntered =>
            /\ sw'.ret
            /\ triple' = RequestedTriple(sw.req)
            /\ fut' = fut
            /\ focus_timer_future' = focus_timer_future]_vars
    /\ []((/\ EnforceApplied
           /\ current_submode = "FOCUS"
           /\ ~get_current_mode_settings.present)
          => (GatewayCalls = 0 /\ ~ec.scheduled))

\* The switch alone: the part of C23 about switch_to_mode.
C23_SwitchPart ==
    [][UnconfiguredFocusEntered =>
            /\ sw'.ret
            /\ triple' = RequestedTriple(sw.req)
            /\ fut' = fut
            /\ focus_timer_future' = focus_timer_future]_vars

\* C30: an enforce_current_mode call that applied a policy to an observation
\* whose app is not in blocked_apps made one minimize and no close if the
\* app is in minimized_apps and no Action Gateway call if it is in neither
\* list, whatever the status of the observation.
C30_MinimizeOrNothing ==
    LET settings == get_current_mode_settings
    IN  (/\ EnforceApplied
         /\ settings.present
         /\ Lower(ec.obs.app) \notin settings.blocked_apps)
        => IF Lower(ec.obs.app) \in settings.minimized_apps
           THEN ec.minimize = 1 /\ ec.close_tab + ec.close_window = 0
           ELSE GatewayCalls = 0

\* The same for the observations whose status is not "Blocked".
C30_UnlessStatusBlocked ==
    LET settings == get_current_mode_settings
    IN  (/\ EnforceApplied
         /\ settings.present
         /\ ec.obs.status # "Blocked"
         /\ Lower(ec.obs.app) \notin settings.blocked_apps)
        => IF Lower(ec.obs.app) \in settings.minimized_apps
           THEN ec.minimize = 1 /\ ec.close_tab + ec.close_window = 0
           ELSE GatewayCalls = 0

\* C24: an enforce_current_mode call that finds the observation absent, the
\* shutdown flag set or a transition in progress makes no Action Gateway
\* call and submits nothing; a call that applies a policy does so while no
\* switch_to_mode call is between cleanup and return, so never in a state
\* that is rolled back afterwards; and no focus end is scheduled once the
\* shutdown flag is set.
C24_EnforceReturnsEarly ==
    /\ [][(/\ EnforceInvoked
           /\ (ec'.obs = NoObservation \/ shutdown_event \/ transitioning))
          => (/\ ~ec'.applied
              /\ ec'.pc = "exit"
              /\ ec'.close_tab + ec'.close_window + ec'.minimize = 0
              /\ fut' = fut)]_vars
    /\ [][(~ec.scheduled /\ ec'.scheduled) => (~shutdown_event /\ ~transitioning)]_vars
    /\ [](ec.applied => (sw.pc = "idle" /\ ~transitioning /\ triple \in LegalTriples))

\* A call for a blocked app returned early during a focus session whose time
\* was over, because the shutdown flag was set.
C24_Witness ==
    /\ ec.pc = "exit"
    /\ ~ec.applied
    /\ ec.obs.app = "steam"
    /\ shutdown_event
    /\ ~transitioning
    /\ current_submode = "FOCUS"
    /\ get_current_mode_settings.present
    /\ focus_time_over(get_current_mode_settings)

\* ------------------------------------------------------- triple claims
\* The stores of _perform_mode_switch to the triple: lines 283-285 and 296.
TripleStores == {"set_mode", "set_submode", "set_focus", "rb_mode", "rb_submode", "rb_focus"}

\* C25: every step that changes the triple is a store of a switch_to_mode
\* call that holds mode_lock; it is no step of enforce_current_mode, of the
\* worker outside its own switch_to_mode call, or of _graceful_shutdown.
C25_OnlySwitchChangesTriple ==
    [][triple' # triple =>
          /\ sw.pc \in TripleStores
          /\ lock = sw.owner
          /\ lock' = lock
          /\ ec' = ec
          /\ wk' = wk
          /\ sd' = sd
          /\ fut' = fut]_vars

\* The end-focus task's switch_to_mode call has changed the triple after the
\* timer of the session ran out, with a shutdown invoked meanwhile.
C25_Witness ==
    /\ sw.pc = "exit"
    /\ sw.owner = "worker"
    /\ sw.ret
    /\ sw.pre[2] = "FOCUS"
    /\ triple = <<"STANDARD", "NORMAL", None>>
    /\ shutdown_event

\* ------------------------------------------------------- timer claims
\* A timer task that ran to its end submits the end-focus task in this step.
TimerTriggersEnd == wk.pc = "timer_sched" /\ Len(queue') = Len(queue) + 1

\* The duration of the current focus session has elapsed.
SessionTimeOver ==
    /\ get_current_mode_settings.present
    /\ focus_time_over(get_current_mode_settings)

\* C26: while no switch_to_mode call is executing, a timer task triggers a
\* focus end only for the session it was started for: when it does, the
\* current session's own duration has elapsed.
C26_StaleTimerEndsNothing ==
    [][(TimerTriggersEnd /\ sw.pc = "idle") => SessionTimeOver]_vars

\* get_current_state: the three fields as a reader finds them, without lock.
get_current_state == <<current_mode, current_submode, current_focus_type>>

\* C27: whenever a reader calls get_current_state, also while a
\* switch_to_mode call is storing or restoring the triple, the result is one
\* of the five legal combinations.
C27_ReaderSeesLegalTriple == get_current_state \in LegalTriples

\* The state is a Focus state whose policy has a duration, no switch_to_mode
\* call is executing and shutdown has not begun.
TimedFocusAtRest ==
    /\ current_mode = "STANDARD"
    /\ current_submode = "FOCUS"
    /\ current_focus_type # None
    /\ get_current_mode_settings.present
    /\ get_current_mode_settings.duration > 0
    /\ ~SwitchExecuting
    /\ ~shutdown_event

\* The timer of the current session is pending or running.
SessionTimerLive == focus_timer_future \in LiveTimers

\* The timer returned by submitting the end of the session, and that task is
\* pending or running.
SessionEndScheduled ==
    \E i \in TaskIds : fut[i].kind = "end" /\ fut[i].st \in {"pending", "running"}

\* C28: in a Focus state with a duration, while no switch is executing and
\* shutdown has not begun, mode_start_time is set and the timer of the session
\* is pending or running (or has handed the end of the session to the
\* executor).
C28_TimedFocusHasTimer ==
    TimedFocusAtRest =>
        /\ session_elapsed # NoStart
        /\ SessionTimerLive \/ SessionEndScheduled

\* The Focus session goes on: the state is a Focus state, no switch_to_mode
\* call is executing and shutdown has not begun.
FocusSessionGoesOn ==
    /\ current_submode = "FOCUS"
    /\ current_focus_type # None
    /\ ~SwitchExecuting
    /\ ~shutdown_event

\* No record of a session is persisted while the session goes on.
C29_OnlyAtEnd == FocusSessionGoesOn => session_records = 0

\* No session has two records.
C29_AtMostOnce == session_records <= 1

\* C29: a focus-session record is persisted only when the Focus session ends
\* (a successful switch away from it, or shutdown), and once per session,
\* whatever switch attempts succeeded, were rejected or were rolled back.
C29_OneRecordPerEndedSession == C29_OnlyAtEnd /\ C29_AtMostOnce

\* ------------------------------------------------- end-of-session claims
\* The engine is in a Focus state whose policy has a duration, and the elapsed
\* time of the session is at least that duration.
FocusDurationReached ==
    /\ current_submode = "FOCUS"
    /\ get_current_mode_settings.present
    /\ get_current_mode_settings.duration > 0
    /\ session_elapsed # NoStart
    /\ session_elapsed >= get_current_mode_settings.duration

\* An enforce_current_mode call passes the test of line 158 in this step.
EnforcePassesEntry == EnforceInvoked /\ ec'.applied

\* The call leaves line 210 in this step.
EnforceLeavesSchedule == ec.pc = "sched" /\ ec'.pc # "sched"

\* The call goes to _schedule_focus_end exactly when the duration is reached,
\* it submits nothing otherwise, and the triple is the same from its entry to
\* its return.
EnforceDecidesByDuration ==
    /\ [][EnforcePassesEntry => (ec'.pc = "sched" <=> FocusDurationReached)]_vars
    /\ [][(~ec.scheduled /\ ec'.scheduled)
          => (ec.pc = "sched" /\ Len(queue') = Len(queue) + 1
              /\ fut'[NextId].kind = "end")]_vars
    /\ [][ec.pc # "idle" => triple' = triple]_vars

\* C31 as stated: a call that applies the policy schedules the end of the
\* focus session if and only if the duration of the Focus state is reached.
C31_SchedulesIffDurationReached ==
    /\ EnforceDecidesByDuration
    /\ [][EnforceLeavesSchedule => ec'.scheduled]_vars

\* C31 amended: the same, unless the shutdown flag is set by the time
\* _schedule_focus_end tests it; then nothing is scheduled.
C31_SchedulesUnlessShutdown ==
    /\ EnforceDecidesByDuration
    /\ [][EnforceLeavesSchedule => (ec'.scheduled <=> ~shutdown_event)]_vars

\* A call that closed the window of a blocked app scheduled the end of the
\* session as well.
C31_Witness ==
    /\ ec.pc = "exit"
    /\ ec.scheduled
    /\ ec.close_tab + ec.close_window >= 1

\* ------------------------------------------------------ change_focus_type
\* The call returned False at line 497, or has called switch_to_mode.
Refused == "refused"
Called == "called"

\* The user thread is not inside a switch_to_mode call.
UserThreadFree == sw.owner # "user"

\* change_focus_type(new_focus_type), lines 495-497: the test of the submode,
\* made without mode_lock.
change_focus_type(new_focus_type) ==
    /\ cf = NoChange
    /\ UserThreadFree
    /\ cf' = IF current_submode # "FOCUS" THEN Refused ELSE new_focus_type
    /\ UNCHANGED <<hist, triple, session_elapsed, flags, lock, sw, futures, wk, ec, sd,
                   cfg, ghosts>>

\* Line 498: the call of switch_to_mode.
change_focus_type_switches ==
    /\ cf \in FocusType
    /\ switch_to_mode("user", [mode |-> "STANDARD", submode |-> "FOCUS",
                               focus_type |-> cf])
    /\ cf' = Called

\* change_focus_type returns to its caller.
change_focus_type_returns ==
    /\ cf \in {Refused, Called}
    /\ UserThreadFree
    /\ cf' = NoChange
    /\ UNCHANGED <<hist, triple, session_elapsed, flags, lock, sw, futures, wk, ec, sd,
                   cfg, ghosts>>

\* The engine with a user who switches modes and changes the focus type, one
\* call at a time.
ChangeNext ==
    \/ cf = NoChange /\ UserSwitch(ValidRequests)
    \/ \E new_focus_type \in FocusType : change_focus_type(new_focus_type)
    \/ change_focus_type_switches
    \/ change_focus_type_returns
    \/ Switching
    \/ Worker
    \/ Shutdown
    \/ Tick

ChangeSpec == Init /\ [][ChangeNext]_vars

\* The switch_to_mode call of a change_focus_type call has returned True.
ChangeCallSwitched == cf = Called /\ sw.owner = "user" /\ sw.pc = "exit" /\ sw.ret

\* C32: a change_focus_type call that returns True found the engine in a
\* Focus state when its switch_to_mode call began, so the call never moves
\* the engine from a non-Focus state into a Focus state; and a call made in a
\* non-Focus state returns False with the state unchanged.
C32_ChangeStaysInFocus ==
    /\ [](ChangeCallSwitched => sw.pre[2] = "FOCUS")
    /\ [][(cf = NoChange /\ cf' # NoChange /\ current_submode # "FOCUS")
          => (cf' = Refused /\ UNCHANGED <<triple, session_elapsed, flags, futures,
                                              cfg, ghosts>>)]_vars

\* ---------------------------------------------------- omitted submode
\* switch_to_mode(ModeType.STANDARD): submode and focus_type are omitted.
StandardRequest == [mode |-> "STANDARD", submode |-> None, focus_type |-> None]

\* A switch_to_mode(STANDARD) call begins in Standard/Normal and passes the
\* test of line 231.
OmittedSubmodeCall ==
    /\ CallBegins
    /\ triple = <<"STANDARD", "NORMAL", None>>
    /\ sw'.req = StandardRequest
    /\ ~transitioning
    /\ ~shutdown_event

\* C33: switch_to_mode(STANDARD) in Standard/Normal is the idempotent case: it
\* returns True at line 244, the transitioning flag is not raised and
\* _cleanup_current_mode does not run, so no timer task is cancelled or
\* removed from the tracked set.
C33_OmittedSubmodeIdempotent ==
    [][OmittedSubmodeCall
       => (/\ sw'.pc = "exit"
           /\ sw'.ret
           /\ transitioning' = transitioning
           /\ CallChangedNothing)]_vars

\* ------------------------------------------------- statistics claims
\* The finalized sessions of an app, by position in sessions.
FinalizedOf(app) ==
    {i \in DOMAIN sessions : sessions[i].app_name = app /\ sessions[i].end_time # NoTime}

\* The largest number of a non-empty set of numbers.
Maximum(numbers) == CHOOSE n \in numbers : \A m \in numbers : m <= n

\* The total_duration values of the app's finalized sessions.
FinalizedDurations(app) == {sessions[i].total_duration : i \in FinalizedOf(app)}

\* last_used is the end_time of the session of the app finalized last, and the
\* average is total_time / session_count.
LastUsedAndAverage(app) ==
    /\ app_statistics[app].last_used = sessions[Maximum(FinalizedOf(app))].end_time
    /\ app_statistics[app].average_session_duration[1] * app_statistics[app].session_count
         = app_statistics[app].total_time * app_statistics[app].average_session_duration[2]

\* C34 as stated: with no statistics loaded, for every app that has finalized
\* sessions longest_session is the maximum of their total_duration, last_used
\* the end_time of the one finalized last, and average_session_duration times
\* session_count is total_time.
C34_StatisticsFields ==
    loaded_statistics = EmptyStatistics =>
        \A app \in HistoryApps :
            FinalizedOf(app) # {} =>
                /\ app_statistics[app].longest_session = Maximum(FinalizedDurations(app))
                /\ LastUsedAndAverage(app)

\* C34 amended: the same with longest_session the maximum of 0 and the
\* total_duration values (a session that ends before it started, after the
\* wall clock stepped back, has a negative total_duration).
C34_LongestFromZero ==
    loaded_statistics = EmptyStatistics =>
        \A app \in HistoryApps :
            FinalizedOf(app) # {} =>
                /\ app_statistics[app].longest_session
                     = Maximum(FinalizedDurations(app) \cup {0})
                /\ LastUsedAndAverage(app)

\* An app has had a session of duration 2 and then a shorter one.
C34_Witness ==
    /\ loaded_statistics = EmptyStatistics
    /\ Cardinality(FinalizedOf("steam")) = 2
    /\ sessions[Maximum(FinalizedOf("steam"))].total_duration = 1
    /\ app_statistics["steam"].longest_session = 2
    /\ app_statistics["steam"].total_time = 3

\* ------------------------------------------ contexts and statuses claims
Contexts == {NoContext, "docs", "mail"}

\* The tracking loop's observations with their contexts and statuses, one per
\* clock tick.
DetailedObservations ==
    {o \in [app : HistoryApps, timestamp : Timestamps, context : Contexts,
            status : Statuses] :
        /\ Len(raw_history) < MaxDetailed
        /\ o.timestamp = Len(raw_history)}

DetailedNext ==
    \/ \E o \in DetailedObservations : add_window_info(o)
    \/ start_new_session
    \/ add_window_info_enforces
    \/ add_window_info_returns
    \/ force_end_current_session

DetailedSpec == Init /\ [][DetailedNext]_vars

\* The observations of a session that is open: the last window_count
\* observations received.
ObservationsOf(session) ==
    SubSeq(raw_history, Len(raw_history) - session.window_count + 1, Len(raw_history))

RECURSIVE FirstAppearances(_, _)
\* The contexts of the first n observations, each at its first appearance,
\* without the empty context.
FirstAppearances(observations, n) ==
    IF n = 0 THEN <<>>
    ELSE IF \/ observations[n].context = NoContext
            \/ \E k \in 1 .. n - 1 : observations[k].context = observations[n].context
         THEN FirstAppearances(observations, n - 1)
         ELSE Append(FirstAppearances(observations, n - 1), observations[n].context)

\* C36: the open session's context_changes has no duplicate and no empty
\* context and lists the contexts of the session's observations in order of
\* first appearance.
C36_ContextsOnceInOrder ==
    \A i \in OpenSessions :
        LET contexts == sessions[i].context_changes
            observations == ObservationsOf(sessions[i])
        IN  /\ \A j, k \in DOMAIN contexts : contexts[j] = contexts[k] => j = k
            /\ \A j \in DOMAIN contexts : contexts[j] # NoContext
            /\ contexts = FirstAppearances(observations, Len(observations))

\* A session saw a context, the empty context, and the first context again.
C36_Witness ==
    \E i \in OpenSessions :
        /\ sessions[i].window_count = 3
        /\ sessions[i].context_changes = <<"docs">>
        /\ raw_history[2].context = NoContext
        /\ raw_history[3].context = "docs"

\* C37: the open session's status_changes is not empty, begins with the
\* status of the session's first observation, has no two consecutive entries
\* of one status, and ends with the status of the session's latest
\* observation.
C37_StatusesAlternate ==
    \A i \in OpenSessions :
        LET statuses == sessions[i].status_changes
            observations == ObservationsOf(sessions[i])
        IN  /\ statuses # <<>>
            /\ statuses[1] = <<observations[1].timestamp, observations[1].status>>
            /\ \A j \in 1 .. Len(statuses) - 1 : statuses[j][2] # statuses[j + 1][2]
            /\ statuses[Len(statuses)][2] = observations[Len(observations)].status

\* A session saw one status twice and then another.
C37_Witness ==
    \E i \in OpenSessions :
        /\ sessions[i].window_count = 3
        /\ raw_history[1].status = "Neutral"
        /\ raw_history[2].status = "Neutral"
        /\ raw_history[3].status = "Blocked"
        /\ Len(sessions[i].status_changes) = 2

\* ------------------------------------------------- long session claims
\* One window observed once per clock tick, on a clock followed up to
\* MaxTime.
SteadyObservations ==
    {o \in HistoryObservations :
        /\ Len(raw_history) < MaxSteady
        /\ o.app = "notion"
        /\ o.timestamp = IF Len(raw_history) < MaxTime THEN Len(raw_history) ELSE MaxTime}

SteadyNext ==
    \/ \E o \in SteadyObservations : add_window_info(o)
    \/ start_new_session
    \/ add_window_info_enforces
    \/ add_window_info_returns
    \/ force_end_current_session

SteadySpec == Init /\ [][SteadyNext]_vars

\* A session whose end_time is set does not change any more, and the step
\* that sets end_time writes total_duration = end_time - start_time.
EndTimeSetOnce ==
    [][\A i \in DOMAIN sessions :
          /\ sessions[i].end_time # NoTime => sessions'[i] = sessions[i]
          /\ (sessions[i].end_time = NoTime /\ sessions'[i].end_time # NoTime)
             => sessions'[i].total_duration = sessions'[i].end_time - sessions[i].start_time
      ]_vars

C38_FlagClearedAtRest == (~SwitchExecuting /\ ~shutdown_event) => ~transitioning

\* A switch was rolled back and has returned, with shutdown not begun.
C38_Witness ==
    /\ sw.pc = "exit"
    /\ sw.init_failed
    /\ ~sw.ret
    /\ ~shutdown_event
    /\ ~transitioning

\* ------------------------------------------------ task tracking claim
\* The background tasks submitted and not yet completed.
UncompletedTasks == {i \in TaskIds : fut[i].st \in {"pending", "running"}}

\* C39: before shutdown, _active_futures is the set of the tasks that were
\* submitted and have not completed, a timer that a mode switch tried to
\* cancel while it was running included.
C39_TrackedAreUncompleted == ~shutdown_event => active_futures = UncompletedTasks
====
